---- MODULE Spec2Model ----
(***************************************************************************)
(* SHA-256 streaming digest (class Sha256) and the file digest driver      *)
(* (compute_sha256) of file-probe, src/src/hash.cpp.                       *)
(*                                                                         *)
(* A std::uint32_t is the pair <<high 16 bits, low 16 bits>>, so that      *)
(* every intermediate value stays inside the range of the model checker's  *)
(* integers while the arithmetic is still exactly modulo 2^32.             *)
(***************************************************************************)
EXTENDS Integers, Sequences, FiniteSets, TLC

Min(a, b) == IF a < b THEN a ELSE b

(***************************************************************************)
(* Bitwise operators of C++ on unsigned values.                            *)
(***************************************************************************)
XorBit == <<<<0, 1>>, <<1, 0>>>>
AndBit == <<<<0, 0>>, <<0, 1>>>>
OrBit  == <<<<0, 1>>, <<1, 1>>>>

RECURSIVE Bitwise(_, _, _, _)
Bitwise(bit, a, b, n) ==
    IF n = 0 THEN 0
    ELSE bit[(a % 2) + 1][(b % 2) + 1] + 2 * Bitwise(bit, a \div 2, b \div 2, n - 1)

XorByte == [a \in 0..255 |-> [b \in 0..255 |-> Bitwise(XorBit, a, b, 8)]]
AndByte == [a \in 0..255 |-> [b \in 0..255 |-> Bitwise(AndBit, a, b, 8)]]
OrByte  == [a \in 0..255 |-> [b \in 0..255 |-> Bitwise(OrBit, a, b, 8)]]

Op16(tab, a, b) == tab[a \div 256][b \div 256] * 256 + tab[a % 256][b % 256]

\* x ^ y, x & y, x | y, ~x on std::uint32_t
Xor32(x, y) == <<Op16(XorByte, x[1], y[1]), Op16(XorByte, x[2], y[2])>>
And32(x, y) == <<Op16(AndByte, x[1], y[1]), Op16(AndByte, x[2], y[2])>>
Or32(x, y)  == <<Op16(OrByte, x[1], y[1]), Op16(OrByte, x[2], y[2])>>
Not32(x)    == <<65535 - x[1], 65535 - x[2]>>

\* x + y on std::uint32_t: unsigned addition wraps modulo 2^32
Add32(x, y) ==
    LET lo == x[2] + y[2]
        hi == x[1] + y[1] + (lo \div 65536)
    IN <<hi % 65536, lo % 65536>>

\* x >> n and x << n on std::uint32_t, for 0 <= n <= 31
Shr32(x, n) ==
    IF n < 16
    THEN <<x[1] \div 2^n, (x[2] \div 2^n) + (x[1] % 2^n) * 2^(16 - n)>>
    ELSE <<0, x[1] \div 2^(n - 16)>>

Shl32(x, n) ==
    IF n < 16
    THEN <<((x[1] * 2^n) % 65536) + (x[2] \div 2^(16 - n)), (x[2] * 2^n) % 65536>>
    ELSE <<(x[2] * 2^(n - 16)) % 65536, 0>>

\* static_cast<std::uint32_t>(byte) and static_cast<std::uint8_t>(word)
U32(byte) == <<0, byte>>
U8(word) == word[2] % 256

(***************************************************************************)
(* class Sha256                                                            *)
(***************************************************************************)
block_size == 64

\* static const std::uint32_t k[64]; k[i] of the source is k[i + 1] here
k == <<
    <<\H428a, \H2f98>>, <<\H7137, \H4491>>, <<\Hb5c0, \Hfbcf>>, <<\He9b5, \Hdba5>>,
    <<\H3956, \Hc25b>>, <<\H59f1, \H11f1>>, <<\H923f, \H82a4>>, <<\Hab1c, \H5ed5>>,
    <<\Hd807, \Haa98>>, <<\H1283, \H5b01>>, <<\H2431, \H85be>>, <<\H550c, \H7dc3>>,
    <<\H72be, \H5d74>>, <<\H80de, \Hb1fe>>, <<\H9bdc, \H06a7>>, <<\Hc19b, \Hf174>>,
    <<\He49b, \H69c1>>, <<\Hefbe, \H4786>>, <<\H0fc1, \H9dc6>>, <<\H240c, \Ha1cc>>,
    <<\H2de9, \H2c6f>>, <<\H4a74, \H84aa>>, <<\H5cb0, \Ha9dc>>, <<\H76f9, \H88da>>,
    <<\H983e, \H5152>>, <<\Ha831, \Hc66d>>, <<\Hb003, \H27c8>>, <<\Hbf59, \H7fc7>>,
    <<\Hc6e0, \H0bf3>>, <<\Hd5a7, \H9147>>, <<\H06ca, \H6351>>, <<\H1429, \H2967>>,
    <<\H27b7, \H0a85>>, <<\H2e1b, \H2138>>, <<\H4d2c, \H6dfc>>, <<\H5338, \H0d13>>,
    <<\H650a, \H7354>>, <<\H766a, \H0abb>>, <<\H81c2, \Hc92e>>, <<\H9272, \H2c85>>,
    <<\Ha2bf, \He8a1>>, <<\Ha81a, \H664b>>, <<\Hc24b, \H8b70>>, <<\Hc76c, \H51a3>>,
    <<\Hd192, \He819>>, <<\Hd699, \H0624>>, <<\Hf40e, \H3585>>, <<\H106a, \Ha070>>,
    <<\H19a4, \Hc116>>, <<\H1e37, \H6c08>>, <<\H2748, \H774c>>, <<\H34b0, \Hbcb5>>,
    <<\H391c, \H0cb3>>, <<\H4ed8, \Haa4a>>, <<\H5b9c, \Hca4f>>, <<\H682e, \H6ff3>>,
    <<\H748f, \H82ee>>, <<\H78a5, \H636f>>, <<\H84c8, \H7814>>, <<\H8cc7, \H0208>>,
    <<\H90be, \Hfffa>>, <<\Ha450, \H6ceb>>, <<\Hbef9, \Ha3f7>>, <<\Hc671, \H78f2>>>>

\* the eight initial hash values assigned by reset(); state_[j] of the source
\* is state_[j + 1] here, and so for buffer_, digest and w
InitialState == <<
    <<\H6a09, \He667>>, <<\Hbb67, \Hae85>>, <<\H3c6e, \Hf372>>, <<\Ha54f, \Hf53a>>,
    <<\H510e, \H527f>>, <<\H9b05, \H688c>>, <<\H1f83, \Hd9ab>>, <<\H5be0, \Hcd19>>>>

\* the data members with their default member initializers; blocks and
\* stores are not members: blocks is the history of the instance's
\* process_block invocations, each with the pending length at the call and
\* the 64 bytes passed, and stores is the history of the indices at which
\* finalize stored into buffer_
members ==
    [state_ |-> [i \in 1..8 |-> <<0, 0>>],
     buffer_ |-> [i \in 1..block_size |-> 0],
     bit_count_ |-> 0,
     buffer_size_ |-> 0,
     blocks |-> <<>>,
     stores |-> <<>>]

\* a reset that leaves the chaining state as the member initializer set it
reset_counters(self) ==
    [self EXCEPT !.bit_count_ = 0, !.buffer_size_ = 0]

reset(self) ==
    [self EXCEPT !.state_ = InitialState, !.bit_count_ = 0, !.buffer_size_ = 0]

\* Sha256() { reset(); }
Sha256 == reset(members)

\* a shift where the rotation should be
rotr_shift(value, count) == Shr32(value, count)

rotr(value, count) == Or32(Shr32(value, count), Shl32(value, 32 - count))

\* rotation counts with 22 mistyped as 32
RoundRotations_mistyped == [s1 |-> <<6, 11, 25>>, s0 |-> <<2, 13, 32>>]

\* the counts passed to rotr: for s0 and s1 of the schedule loop, and for s1
\* and s0 of the round loop
ScheduleRotations == [s0 |-> <<7, 18>>, s1 |-> <<17, 19>>]
RoundRotations == [s1 |-> <<6, 11, 25>>, s0 |-> <<2, 13, 22>>]

\* w[0..15]: the block read as sixteen big-endian words
LoadWords(block) ==
    [i \in 1..16 |->
        Or32(Or32(Shl32(U32(block[(i - 1) * 4 + 1]), 24), Shl32(U32(block[(i - 1) * 4 + 2]), 16)),
             Or32(Shl32(U32(block[(i - 1) * 4 + 3]), 8), U32(block[(i - 1) * 4 + 4])))]

\* a schedule step with the shift counts of s0 and s1 exchanged
ScheduleWord_exchanged(w) ==
    LET i == Len(w)
        s0 == Xor32(Xor32(rotr(w[i - 15 + 1], 7), rotr(w[i - 15 + 1], 18)),
                    Shr32(w[i - 15 + 1], 10))
        s1 == Xor32(Xor32(rotr(w[i - 2 + 1], 17), rotr(w[i - 2 + 1], 19)),
                    Shr32(w[i - 2 + 1], 3))
    IN Append(w, Add32(Add32(Add32(w[i - 16 + 1], s0), w[i - 7 + 1]), s1))

\* the body of for (i = 16; i < 64; ++i): w holds w[0..i-1], where i = Len(w)
ScheduleWord(w) ==
    LET i == Len(w)
        s0 == Xor32(Xor32(rotr(w[i - 15 + 1], ScheduleRotations.s0[1]),
                          rotr(w[i - 15 + 1], ScheduleRotations.s0[2])),
                    Shr32(w[i - 15 + 1], 3))
        s1 == Xor32(Xor32(rotr(w[i - 2 + 1], ScheduleRotations.s1[1]),
                          rotr(w[i - 2 + 1], ScheduleRotations.s1[2])),
                    Shr32(w[i - 2 + 1], 10))
    IN Append(w, Add32(Add32(Add32(w[i - 16 + 1], s0), w[i - 7 + 1]), s1))

\* for (i = 16; i < 64; ++i), at most n iterations of it; the iterations are
\* split in halves and the first half is computed before the second starts,
\* which keeps the nesting of the evaluation logarithmic
RECURSIVE Schedule(_, _)
Schedule(w, n) ==
    IF Len(w) < 64 /\ n > 0
    THEN IF n = 1
         THEN ScheduleWord(w)
         ELSE CHOOSE done \in {Schedule(half, n - (n \div 2)) :
                                  half \in {Schedule(w, n \div 2)}} : TRUE
    ELSE w

\* a round that assigns d before e, so that e takes the new d
Round_reordered(r, w) ==
    LET s1 == Xor32(Xor32(rotr(r.e, 6), rotr(r.e, 11)), rotr(r.e, 25))
        ch == Xor32(And32(r.e, r.f), And32(Not32(r.e), r.g))
        temp1 == Add32(Add32(Add32(Add32(r.h, s1), ch), k[r.i + 1]), w[r.i + 1])
        s0 == Xor32(Xor32(rotr(r.a, 2), rotr(r.a, 13)), rotr(r.a, 22))
        maj == Xor32(Xor32(And32(r.a, r.b), And32(r.a, r.c)), And32(r.b, r.c))
        temp2 == Add32(s0, maj)
    IN [h |-> r.g, g |-> r.f, f |-> r.e, e |-> Add32(r.c, temp1),
        d |-> r.c, c |-> r.b, b |-> r.a, a |-> Add32(temp1, temp2),
        i |-> r.i + 1]

\* the body of for (i = 0; i < 64; ++i): r holds the working registers a..h and i
Round(r, w) ==
    LET s1 == Xor32(Xor32(rotr(r.e, RoundRotations.s1[1]), rotr(r.e, RoundRotations.s1[2])),
                    rotr(r.e, RoundRotations.s1[3]))
        ch == Xor32(And32(r.e, r.f), And32(Not32(r.e), r.g))
        temp1 == Add32(Add32(Add32(Add32(r.h, s1), ch), k[r.i + 1]), w[r.i + 1])
        s0 == Xor32(Xor32(rotr(r.a, RoundRotations.s0[1]), rotr(r.a, RoundRotations.s0[2])),
                    rotr(r.a, RoundRotations.s0[3]))
        maj == Xor32(Xor32(And32(r.a, r.b), And32(r.a, r.c)), And32(r.b, r.c))
        temp2 == Add32(s0, maj)
    IN [h |-> r.g, g |-> r.f, f |-> r.e, e |-> Add32(r.d, temp1),
        d |-> r.c, c |-> r.b, b |-> r.a, a |-> Add32(temp1, temp2),
        i |-> r.i + 1]

\* for (i = 0; i < 64; ++i), at most n iterations of it, split in halves
RECURSIVE Rounds(_, _, _)
Rounds(r, w, n) ==
    IF r.i < 64 /\ n > 0
    THEN IF n = 1
         THEN Round(r, w)
         ELSE CHOOSE done \in {Rounds(half, w, n - (n \div 2)) :
                                  half \in {Rounds(r, w, n \div 2)}} : TRUE
    ELSE r

\* the rounds over the schedule w, and the addition into state_
Compress(self, w) ==
    LET r == Rounds([a |-> self.state_[1], b |-> self.state_[2], c |-> self.state_[3],
                     d |-> self.state_[4], e |-> self.state_[5], f |-> self.state_[6],
                     g |-> self.state_[7], h |-> self.state_[8], i |-> 0], w, 64)
    IN [self EXCEPT !.state_ = <<Add32(self.state_[1], r.a), Add32(self.state_[2], r.b),
                                 Add32(self.state_[3], r.c), Add32(self.state_[4], r.d),
                                 Add32(self.state_[5], r.e), Add32(self.state_[6], r.f),
                                 Add32(self.state_[7], r.g), Add32(self.state_[8], r.h)>>]

\* a compression that also takes over the emptying of the buffer
process_block_clearing(self, block) ==
    CHOOSE done \in {[Compress(self, w) EXCEPT
                         !.buffer_size_ = 0,
                         !.blocks = Append(@, [size |-> self.buffer_size_,
                                               block |-> SubSeq(block, 1, block_size)])] :
                        w \in {Schedule(LoadWords(block), 64 - 16)}} : TRUE

\* the schedule is complete before the rounds start; the invocation is
\* entered in the history
process_block(self, block) ==
    CHOOSE done \in {[Compress(self, w) EXCEPT
                         !.blocks = Append(@, [size |-> self.buffer_size_,
                                               block |-> SubSeq(block, 1, block_size)])] :
                        w \in {Schedule(LoadWords(block), 64 - 16)}} : TRUE

\* a memcpy that ignores the bytes already pending and copies to the front
memcpy_front(buffer, at, data, off, to_copy) ==
    SubSeq(data, off + 1, off + to_copy) \o SubSeq(buffer, to_copy + 1, Len(buffer))

\* std::memcpy(buffer_.data() + at, data + off, to_copy)
memcpy(buffer, at, data, off, to_copy) ==
    SubSeq(buffer, 1, at) \o SubSeq(data, off + 1, off + to_copy)
        \o SubSeq(buffer, at + to_copy + 1, Len(buffer))

\* a loop body that never hands a full buffer to process_block
update_body_no_flush(c) ==
    LET space == block_size - c.self.buffer_size_
        to_copy == Min(space, c.length)
    IN [self |-> [c.self EXCEPT
                     !.buffer_ = SubSeq(@, 1, c.self.buffer_size_)
                                     \o SubSeq(c.data, c.off + 1, c.off + to_copy)
                                     \o SubSeq(@, c.self.buffer_size_ + to_copy + 1, Len(@)),
                     !.buffer_size_ = @ + to_copy,
                     !.bit_count_ = @ + to_copy * 8],
        data |-> c.data,
        off |-> c.off + to_copy,
        length |-> c.length - to_copy]

\* a loop body that compresses whatever is pending
update_body_eager(c) ==
    LET space == block_size - c.self.buffer_size_
        to_copy == Min(space, c.length)
        copied == [c.self EXCEPT
                     !.buffer_ = memcpy(@, c.self.buffer_size_, c.data, c.off, to_copy),
                     !.buffer_size_ = @ + to_copy,
                     !.bit_count_ = @ + to_copy * 8]
    IN [self |-> IF copied.buffer_size_ = block_size
                 THEN [process_block(copied, copied.buffer_) EXCEPT !.buffer_size_ = 0]
                 ELSE [copied EXCEPT !.state_ = process_block(copied, copied.buffer_).state_],
        data |-> c.data,
        off |-> c.off + to_copy,
        length |-> c.length - to_copy]

\* a loop body without data += to_copy
update_body_same_data(c) ==
    LET space == block_size - c.self.buffer_size_
        to_copy == Min(space, c.length)
        copied == [c.self EXCEPT
                     !.buffer_ = memcpy(@, c.self.buffer_size_, c.data, c.off, to_copy),
                     !.buffer_size_ = @ + to_copy,
                     !.bit_count_ = @ + to_copy * 8]
    IN [self |-> IF copied.buffer_size_ = block_size
                 THEN [process_block(copied, copied.buffer_) EXCEPT !.buffer_size_ = 0]
                 ELSE copied,
        data |-> c.data,
        off |-> c.off,
        length |-> c.length - to_copy]

\* a loop body without data += to_copy and without length -= to_copy
update_body_no_advance(c) ==
    LET space == block_size - c.self.buffer_size_
        to_copy == Min(space, c.length)
        copied == [c.self EXCEPT
                     !.buffer_ = memcpy(@, c.self.buffer_size_, c.data, c.off, to_copy),
                     !.buffer_size_ = @ + to_copy,
                     !.bit_count_ = @ + to_copy * 8]
    IN [self |-> IF copied.buffer_size_ = block_size
                 THEN [process_block(copied, copied.buffer_) EXCEPT !.buffer_size_ = 0]
                 ELSE copied,
        data |-> c.data,
        off |-> c.off,
        length |-> c.length]

\* the body of the while loop of update; c holds the instance and the
\* arguments data (the bytes the pointer points into, and its offset) and length
update_body(c) ==
    LET space == block_size - c.self.buffer_size_
        to_copy == Min(space, c.length)
        copied == [c.self EXCEPT
                     !.buffer_ = memcpy(@, c.self.buffer_size_, c.data, c.off, to_copy),
                     !.buffer_size_ = @ + to_copy,
                     !.bit_count_ = @ + to_copy * 8]
    IN [self |-> IF copied.buffer_size_ = block_size
                 THEN [process_block(copied, copied.buffer_) EXCEPT !.buffer_size_ = 0]
                 ELSE copied,
        data |-> c.data,
        off |-> c.off + to_copy,
        length |-> c.length - to_copy]

\* while (length > 0) { body }, at most n iterations of it, split in halves
RECURSIVE update_loop(_, _)
update_loop(c, n) ==
    IF c.length > 0 /\ n > 0
    THEN IF n = 1
         THEN update_body(c)
         ELSE CHOOSE done \in {update_loop(half, n - (n \div 2)) :
                                  half \in {update_loop(c, n \div 2)}} : TRUE
    ELSE c

\* an update that takes an empty chunk for the start of a new message
update_restarting(self, data, off, length) ==
    IF length = 0
    THEN reset(self)
    ELSE update_loop([self |-> self, data |-> data, off |-> off, length |-> length],
                     (length \div block_size) + 2).self

\* update(data + off, length): every iteration but the first and the last
\* copies block_size bytes, so length / block_size + 2 iterations end the loop
update(self, data, off, length) ==
    update_loop([self |-> self, data |-> data, off |-> off, length |-> length],
                (length \div block_size) + 2).self

\* a store to buffer_[block_size], one past the end of the array, that does
\* not trap: the byte behind buffer_ is the least significant byte of
\* bit_count_, the next member (little-endian, no padding in between)
overrun(self, value) ==
    [self EXCEPT !.bit_count_ = (@ - (@ % 256)) + value]

\* a store that also counts the stored byte as input
push_counted(self, value) ==
    [self EXCEPT !.buffer_[self.buffer_size_ + 1] = value, !.buffer_size_ = @ + 1,
                 !.bit_count_ = @ + 8,
                 !.stores = Append(@, self.buffer_size_)]

\* buffer_[buffer_size_++] = value
push(self, value) ==
    IF self.buffer_size_ < block_size
    THEN [self EXCEPT !.buffer_[self.buffer_size_ + 1] = value, !.buffer_size_ = @ + 1,
                      !.stores = Append(@, self.buffer_size_)]
    ELSE [overrun(self, value) EXCEPT !.buffer_size_ = @ + 1,
                                      !.stores = Append(@, self.buffer_size_)]

\* a padding loop that moves on without storing, leaving what the buffer held
zero_fill_skip(self, limit) ==
    IF self.buffer_size_ < limit THEN [self EXCEPT !.buffer_size_ = limit] ELSE self

\* a padding loop that stores nothing
zero_fill_none(self, limit) == self

\* while (buffer_size_ < limit) buffer_[buffer_size_++] = 0;
RECURSIVE zero_fill(_, _)
zero_fill(self, limit) ==
    IF self.buffer_size_ < limit THEN zero_fill(push(self, 0), limit) ELSE self

\* (bit_count_ >> shift) & 0xFF on std::uint64_t; the counter of the model is
\* below 2^31, so a shift by 31 or more leaves 0
LengthByte(count, shift) == IF shift >= 31 THEN 0 ELSE (count \div 2^shift) % 256

\* a length loop that runs one step too far, down to shift = -8
RECURSIVE put_length_nine(_, _)
put_length_nine(self, shift) ==
    IF shift >= -8
    THEN put_length_nine(push(self, IF shift < 0 THEN 0
                                    ELSE LengthByte(self.bit_count_, shift)), shift - 8)
    ELSE self

\* for (int shift = 56; shift >= 0; shift -= 8)
RECURSIVE put_length(_, _)
put_length(self, shift) ==
    IF shift >= 0
    THEN put_length(push(self, LengthByte(self.bit_count_, shift)), shift - 8)
    ELSE self

\* a serialisation with the least significant byte of each word first
RECURSIVE serialize_little(_, _)
serialize_little(state, i) ==
    IF i < 8
    THEN << U8(And32(state[i + 1], U32(255))),
            U8(And32(Shr32(state[i + 1], 8), U32(255))),
            U8(And32(Shr32(state[i + 1], 16), U32(255))),
            U8(And32(Shr32(state[i + 1], 24), U32(255))) >> \o serialize_little(state, i + 1)
    ELSE <<>>

\* digest[i * 4 + j] = (state_[i] >> (24 - 8 * j)) & 0xFF
RECURSIVE serialize_from(_, _)
serialize_from(state, i) ==
    IF i < 8
    THEN << U8(And32(Shr32(state[i + 1], 24), U32(255))),
            U8(And32(Shr32(state[i + 1], 16), U32(255))),
            U8(And32(Shr32(state[i + 1], 8), U32(255))),
            U8(And32(state[i + 1], U32(255))) >> \o serialize_from(state, i + 1)
    ELSE <<>>

serialize(state) == serialize_from(state, 0)

\* a finalize that takes a buffer of exactly 56 bytes to be too full already
finalize_threshold(self) ==
    LET marked == push(self, 128)
        first == IF marked.buffer_size_ >= 56
                 THEN LET full == zero_fill(marked, block_size)
                      IN [process_block(full, full.buffer_) EXCEPT !.buffer_size_ = 0]
                 ELSE marked
        padded == put_length(zero_fill(first, 56), 56)
        last == process_block(padded, padded.buffer_)
    IN [self |-> last, digest |-> serialize(last.state_)]

\* finalize(): the instance it leaves and the digest it returns
finalize(self) ==
    LET marked == push(self, 128)
        first == IF marked.buffer_size_ > 56
                 THEN LET full == zero_fill(marked, block_size)
                      IN [process_block(full, full.buffer_) EXCEPT !.buffer_size_ = 0]
                 ELSE marked
        padded == put_length(zero_fill(first, 56), 56)
        last == process_block(padded, padded.buffer_)
    IN [self |-> last, digest |-> serialize(last.state_)]

(***************************************************************************)
(* compute_sha256: hex encoding of the digest                              *)
(***************************************************************************)
HexDigit == <<"0", "1", "2", "3", "4", "5", "6", "7",
              "8", "9", "a", "b", "c", "d", "e", "f">>

\* operator<< of an int under std::hex: the digits without leading zeros
RECURSIVE hex(_)
hex(n) == IF n < 16 THEN <<HexDigit[n + 1]>> ELSE Append(hex(n \div 16), HexDigit[(n % 16) + 1])

\* a stream that was given no field width
setw_none(width, s) == s

\* std::setw(width) with std::setfill('0'): pad on the left up to the width
RECURSIVE setw(_, _)
setw(width, s) == IF Len(s) < width THEN setw(width, <<"0">> \o s) ELSE s

\* for (std::uint8_t byte : digest) oss << std::setw(2) << static_cast<int>(byte);
RECURSIVE to_hex_from(_, _)
to_hex_from(digest, m) ==
    IF m <= Len(digest) THEN setw(2, hex(digest[m])) \o to_hex_from(digest, m + 1) ELSE <<>>

to_hex(digest) == to_hex_from(digest, 1)


\* std::optional<std::string>
nullopt == [has_value |-> FALSE, value |-> <<>>]
some(str) == [has_value |-> TRUE, value |-> str]

\* std::array<std::uint8_t, 1 << 15> buffer {}
ReadBufferSize == 2^15

\* a default-constructed FileReport: the fields the collector fills in
\* (input_path and absolute_path are the path itself)
FileReport ==
    [target_exists |-> FALSE,
     type |-> "Unknown",
     symlink |-> [is_symlink |-> FALSE, target |-> nullopt, error |-> nullopt],
     permissions |-> nullopt,
     ownership |-> nullopt,
     timestamps |-> nullopt,
     file_detail |-> nullopt,
     directory_detail |-> nullopt,
     warnings |-> <<>>]

\* a default-constructed FileDetail (size_human is format_size(size_bytes))
FileDetail ==
    [size_bytes |-> 0, checksum |-> <<>>,
     resolution |-> nullopt, metadata |-> nullopt, duration |-> nullopt]

\* a default-constructed DirectoryDetail
DirectoryDetail ==
    [total_size_bytes |-> 0, file_count |-> 0, directory_count |-> 0]

(***************************************************************************)
(* Inputs                                                                  *)
(***************************************************************************)
MaxInput == 130
MaxFile == 66
MaxLate == 1
CallsCap == 2
MaxPair == 66
PairCalls == 2

Bytes(n) == SubSeq([i \in 1..n |-> (i * 37 + 11) % 256], 1, n)

Abc == <<97, 98, 99>>

\* the byte sequences a client of the class holds
Inputs == {Abc, Bytes(MaxInput)}

\* the lengths a client passes to update, and those it passes after finalize
ChunkLens == (0..8) \cup {55, 56, 57, 63, 64, 65}
LateLens == {0, 1}

\* the paths handed to compute_sha256: whether the open succeeds, and the
\* size of the file behind the path
FileSizes == (0..MaxFile) \cup {ReadBufferSize, ReadBufferSize + 1}
Paths == {[opens |-> FALSE, size |-> 0]} \cup {[opens |-> TRUE, size |-> n] : n \in FileSizes}

\* a path with nothing behind it
NoTarget ==
    [link_status_error |-> FALSE, is_symlink |-> FALSE,
     exists |-> FALSE, exists_error |-> FALSE,
     readlink_error |-> FALSE,
     status_error |-> FALSE, kind |-> "none", stat_fails |-> FALSE,
     size_error |-> FALSE, class |-> "Binary", media_ok |-> FALSE,
     traverse_error |-> FALSE,
     file |-> [opens |-> FALSE, size |-> 0]]

\* the bytes of the file behind a path
Content(p) == Bytes(p.size)

\* the numbers of bytes a read can deliver before an I/O error stops it,
\* when want bytes would be delivered without the error
ErrorCounts(want) == {0, Min(want, 1)}

VARIABLES
    input,      \* the bytes the client of the instance feeds from
    hasher,     \* the Sha256 instance
    fed,        \* the bytes passed to update so far, in call order
    calls,      \* the number of update calls so far, counted up to CallsCap
    finalized,  \* finalize has returned on the instance
    digest,     \* the digest the last finalize returned
    late,       \* the calls made on the instance after finalize that returned
    trapped,    \* a call made after finalize has ended the program
    pc,         \* the position of compute_sha256
    path,       \* the argument of compute_sha256
    file,       \* the std::ifstream
    buffer,     \* the read buffer
    ops,        \* the calls compute_sha256 has made on its hasher, in order
    result,     \* the value compute_sha256 returns
    instances,  \* two Sha256 instances used side by side, each with its client
    target,     \* what the file system holds behind the path given to main
    report,     \* the FileReport of collect_file_report
    cpc,        \* the position of main and collect_file_report, and the
                \* local FileDetail of collect_file_detail
    sha_calls,  \* the number of compute_sha256 calls made so far
    out         \* what main has written, and its exit status

vars == <<input, hasher, fed, calls, finalized, digest, late, trapped,
          pc, path, file, buffer, ops, result,
          instances, target, report, cpc, sha_calls, out>>

collector == <<target, report, cpc, sha_calls, out>>

driver == <<pc, path, file, buffer, ops, result>>

\* the stream before it is opened
closed == [is_open |-> FALSE, pos |-> 0, eofbit |-> FALSE, failbit |-> FALSE,
           badbit |-> FALSE, gcount |-> 0, reads |-> 0]

\* operator bool of the stream: !fail()
ok(f) == ~(f.failbit \/ f.badbit)

(***************************************************************************)
(* The class under an arbitrary client                                     *)
(***************************************************************************)
InitHash ==
    /\ input \in Inputs
    /\ hasher = Sha256
    /\ fed = <<>>
    /\ calls = 0
    /\ finalized = FALSE
    /\ digest = <<>>
    /\ late = 0
    /\ trapped = FALSE
    /\ pc = "idle"
    /\ path = [opens |-> FALSE, size |-> 0]
    /\ file = closed
    /\ buffer = <<>>
    /\ ops = <<>>
    /\ result = nullopt
    /\ instances = <<>>
    /\ target = NoTarget
    /\ report = FileReport
    /\ cpc = [at |-> "off", detail |-> FileDetail]
    /\ sha_calls = 0
    /\ out = <<>>

\* hasher.update(input + Len(fed), n)
Update(n) ==
    /\ pc = "idle"
    /\ ~trapped
    /\ Len(fed) + n <= Len(input)
    /\ finalized => (late < MaxLate /\ n \in LateLens)
    /\ hasher' = update(hasher, input, Len(fed), n)
    /\ fed' = fed \o SubSeq(input, Len(fed) + 1, Len(fed) + n)
    /\ calls' = Min(calls + 1, CallsCap)
    /\ late' = IF finalized THEN late + 1 ELSE late
    /\ UNCHANGED <<input, finalized, digest, trapped, driver, instances, collector>>

\* hasher.finalize(). With buffer_size_ = block_size on entry (only after an
\* earlier finalize) the first store is to buffer_[64], outside the array,
\* which is undefined behaviour: the store either ends the program (a checked
\* operator[]) or lands behind the array and finalize carries on
Finalize ==
    /\ pc = "idle"
    /\ ~trapped
    /\ finalized => late < MaxLate
    /\ \/ \E r \in {finalize(hasher)} :
             /\ hasher' = r.self
             /\ digest' = r.digest
             /\ finalized' = TRUE
             /\ late' = IF finalized THEN late + 1 ELSE late
             /\ UNCHANGED trapped
       \/ /\ hasher.buffer_size_ >= block_size
          /\ trapped' = TRUE
          /\ UNCHANGED <<hasher, digest, finalized, late>>
    /\ UNCHANGED <<input, fed, calls, driver, instances, collector>>

NextHash ==
    \/ \E n \in ChunkLens : Update(n)
    \/ Finalize

SpecHash == InitHash /\ [][NextHash]_vars

(***************************************************************************)
(* compute_sha256                                                          *)
(***************************************************************************)
Init ==
    /\ path \in Paths
    /\ pc = "open"
    /\ file = closed
    /\ buffer = <<>>
    /\ ops = <<>>
    /\ result = nullopt
    /\ input = <<>>
    /\ hasher = members
    /\ fed = <<>>
    /\ calls = 0
    /\ finalized = FALSE
    /\ digest = <<>>
    /\ late = 0
    /\ trapped = FALSE
    /\ instances = <<>>
    /\ target = NoTarget
    /\ report = FileReport
    /\ cpc = [at |-> "off", detail |-> FileDetail]
    /\ sha_calls = 0
    /\ out = <<>>

\* an open whose failure goes unnoticed: the stream is taken to be good
Open_unchecked ==
    /\ pc = "open"
    /\ file' = [closed EXCEPT !.is_open = path.opens]
    /\ hasher' = Sha256
    /\ buffer' = [i \in 1..ReadBufferSize |-> 0]
    /\ pc' = "loop"
    /\ UNCHANGED <<input, fed, calls, finalized, digest, late, trapped, path, ops, result,
                   instances, collector>>

\* std::ifstream file(path, std::ios::binary); if (!file) return std::nullopt;
\* Sha256 hasher; std::array<std::uint8_t, 1 << 15> buffer {};
Open ==
    /\ pc = "open"
    /\ file' = [closed EXCEPT !.is_open = path.opens, !.failbit = ~path.opens]
    /\ IF ok(file')
       THEN /\ hasher' = Sha256
            /\ buffer' = [i \in 1..ReadBufferSize |-> 0]
            /\ pc' = "loop"
            /\ UNCHANGED result
       ELSE /\ result' = nullopt
            /\ pc' = "done"
            /\ UNCHANGED <<hasher, buffer>>
    /\ UNCHANGED <<input, fed, calls, finalized, digest, late, trapped, path, ops,
                   instances, collector>>

\* file.read(buffer.data(), buffer.size()) on a good stream: got bytes are
\* stored; a short read leaves the stream at end of file, an I/O error bad
read(f, got, error) ==
    [f EXCEPT !.pos = @ + got,
              !.gcount = got,
              !.reads = @ + 1,
              !.eofbit = @ \/ (~error /\ got # ReadBufferSize),
              !.failbit = @ \/ (~error /\ got # ReadBufferSize),
              !.badbit = @ \/ error]

\* an iteration that passes on full buffers only
Read_full_only ==
    /\ pc = "loop"
    /\ ok(file)
    /\ \E error \in BOOLEAN :
       \E got \in (IF error
                   THEN ErrorCounts(Min(ReadBufferSize, path.size - file.pos))
                   ELSE {Min(ReadBufferSize, path.size - file.pos)}) :
       \E filled \in {SubSeq(Content(path), file.pos + 1, file.pos + got)
                          \o SubSeq(buffer, got + 1, ReadBufferSize)} :
          /\ file' = read(file, got, error)
          /\ buffer' = filled
          /\ IF file'.gcount = ReadBufferSize
             THEN /\ hasher' = update(hasher, filled, 0, file'.gcount)
                  /\ fed' = fed \o SubSeq(filled, 1, file'.gcount)
                  /\ calls' = Min(calls + 1, CallsCap)
                  /\ ops' = Append(ops, [op |-> "update", length |-> file'.gcount])
             ELSE UNCHANGED <<hasher, fed, calls, ops>>
    /\ UNCHANGED <<input, finalized, digest, late, trapped, pc, path, result,
                   instances, collector>>

\* an iteration that calls update whatever the read delivered
Read_always_update ==
    /\ pc = "loop"
    /\ ok(file)
    /\ \E error \in BOOLEAN :
       \E got \in (IF error
                   THEN ErrorCounts(Min(ReadBufferSize, path.size - file.pos))
                   ELSE {Min(ReadBufferSize, path.size - file.pos)}) :
       \E filled \in {SubSeq(Content(path), file.pos + 1, file.pos + got)
                          \o SubSeq(buffer, got + 1, ReadBufferSize)} :
          /\ file' = read(file, got, error)
          /\ buffer' = filled
          /\ hasher' = update(hasher, filled, 0, file'.gcount)
          /\ fed' = fed \o SubSeq(filled, 1, file'.gcount)
          /\ calls' = Min(calls + 1, CallsCap)
          /\ ops' = Append(ops, [op |-> "update", length |-> file'.gcount])
    /\ UNCHANGED <<input, finalized, digest, late, trapped, pc, path, result,
                   instances, collector>>

\* one iteration of
\* while (file) { read; bytes_read = gcount(); if (bytes_read > 0) update }
Read ==
    /\ pc = "loop"
    /\ ok(file)
    /\ \E error \in BOOLEAN :
       \E got \in (IF error
                   THEN ErrorCounts(Min(ReadBufferSize, path.size - file.pos))
                   ELSE {Min(ReadBufferSize, path.size - file.pos)}) :
       \E filled \in {SubSeq(Content(path), file.pos + 1, file.pos + got)
                          \o SubSeq(buffer, got + 1, ReadBufferSize)} :
          /\ file' = read(file, got, error)
          /\ buffer' = filled
          /\ IF file'.gcount > 0
             THEN /\ hasher' = update(hasher, filled, 0, file'.gcount)
                  /\ fed' = fed \o SubSeq(filled, 1, file'.gcount)
                  /\ calls' = Min(calls + 1, CallsCap)
                  /\ ops' = Append(ops, [op |-> "update", length |-> file'.gcount])
             ELSE UNCHANGED <<hasher, fed, calls, ops>>
    /\ UNCHANGED <<input, finalized, digest, late, trapped, pc, path, result,
                   instances, collector>>

\* a return that does not look at the end-of-file flag
Return_unchecked ==
    /\ pc = "loop"
    /\ ~ok(file)
    /\ \E r \in {finalize(hasher)} :
          /\ hasher' = r.self
          /\ digest' = r.digest
          /\ finalized' = TRUE
          /\ ops' = Append(ops, [op |-> "finalize", length |-> 0])
          /\ result' = some(to_hex(r.digest))
    /\ pc' = "done"
    /\ UNCHANGED <<input, fed, calls, late, trapped, path, file, buffer,
                   instances, collector>>

\* a return that finalizes before it looks at the end-of-file flag
Return_finalize_first ==
    /\ pc = "loop"
    /\ ~ok(file)
    /\ \E r \in {finalize(hasher)} :
          /\ hasher' = r.self
          /\ digest' = r.digest
          /\ finalized' = TRUE
          /\ ops' = Append(ops, [op |-> "finalize", length |-> 0])
          /\ result' = IF ~file.eofbit THEN nullopt ELSE some(to_hex(r.digest))
    /\ pc' = "done"
    /\ UNCHANGED <<input, fed, calls, late, trapped, path, file, buffer,
                   instances, collector>>

\* a return that takes the fail flag, not a missing end of file, for the error
Return_on_fail ==
    /\ pc = "loop"
    /\ ~ok(file)
    /\ IF file.failbit
       THEN /\ result' = nullopt
            /\ UNCHANGED <<hasher, finalized, digest, ops>>
       ELSE \E r \in {finalize(hasher)} :
               /\ hasher' = r.self
               /\ digest' = r.digest
               /\ finalized' = TRUE
               /\ ops' = Append(ops, [op |-> "finalize", length |-> 0])
               /\ result' = some(to_hex(r.digest))
    /\ pc' = "done"
    /\ UNCHANGED <<input, fed, calls, late, trapped, path, file, buffer,
                   instances, collector>>

\* if (!file.eof()) return std::nullopt;
\* auto digest = hasher.finalize(); ... return oss.str();
Return ==
    /\ pc = "loop"
    /\ ~ok(file)
    /\ IF ~file.eofbit
       THEN /\ result' = nullopt
            /\ UNCHANGED <<hasher, finalized, digest, ops>>
       ELSE \E r \in {finalize(hasher)} :
               /\ hasher' = r.self
               /\ digest' = r.digest
               /\ finalized' = TRUE
               /\ ops' = Append(ops, [op |-> "finalize", length |-> 0])
               /\ result' = some(to_hex(r.digest))
    /\ pc' = "done"
    /\ UNCHANGED <<input, fed, calls, late, trapped, path, file, buffer,
                   instances, collector>>

Next == Open \/ Read \/ Return

Spec == Init /\ [][Next]_vars

\* compute_sha256 runs on one thread that is never suspended for good: as
\* long as a statement is left to execute, one is executed. This is
\* WF_vars(Next), which is []<>(~ENABLED <<Next>>_vars) \/ []<><<Next>>_vars,
\* with ENABLED <<Next>>_vars written out: Open, Read and Return have the
\* guards pc = "open", pc = "loop" /\ ok(file) and pc = "loop" /\ ~ok(file),
\* and pc is "open", "loop" or "done"
SpecLive == Init /\ [][Next]_vars /\ ([]<>(pc = "done") \/ []<><<Next>>_vars)

(***************************************************************************)
(* main, collect_file_report and collect_file_detail                       *)
(***************************************************************************)
MaxTargetFile == 3

\* a path with something behind it
Existing(kind) == [NoTarget EXCEPT !.exists = TRUE, !.kind = kind]

\* what the extension and content tests of a file name can say, with the
\* outcome of the media probes where there are any
FileClasses ==
    {[class |-> c, media_ok |-> m] : c \in {"Image", "Video", "Audio"}, m \in BOOLEAN}
        \cup {[class |-> "Binary", media_ok |-> FALSE]}

\* the files behind a regular target: unreadable, or of a given size
TargetFiles ==
    {[opens |-> FALSE, size |-> 0]}
        \cup {[opens |-> TRUE, size |-> n] : n \in {0, MaxTargetFile}}

\* the targets main is run on: nothing there (a broken symlink included,
\* and one whose link status cannot be read), a target whose status cannot
\* be read, a directory, a device, a regular file
Targets ==
    {[NoTarget EXCEPT !.is_symlink = l, !.readlink_error = l /\ e, !.link_status_error = s,
                      !.exists_error = x] :
         l \in BOOLEAN, e \in BOOLEAN, s \in BOOLEAN, x \in BOOLEAN}
    \cup {[Existing("none") EXCEPT !.status_error = TRUE, !.is_symlink = l, !.stat_fails = f] :
             l \in BOOLEAN, f \in BOOLEAN}
    \cup {[Existing("directory") EXCEPT !.is_symlink = l, !.traverse_error = e] :
             l \in BOOLEAN, e \in BOOLEAN}
    \cup {Existing("other")}
    \cup {[Existing("regular") EXCEPT !.is_symlink = l, !.size_error = e, !.class = c.class,
                                       !.media_ok = c.media_ok, !.file = f] :
             l \in BOOLEAN, e \in BOOLEAN, c \in FileClasses, f \in TargetFiles}

\* the text of a std::error_code or of strerror(errno)
Message == "<message>"

\* the literal that stands in for a checksum
Unavailable == <<"U", "n", "a", "v", "a", "i", "l", "a", "b", "l", "e">>

\* warnings.push_back(text + message)
push_back(r, text, message) == [r EXCEPT !.warnings = Append(@, <<text, message>>)]

\* classify_type: the directory test, then the extension and content tests
classify_type(t, is_directory) == IF is_directory THEN "Directory" ELSE t.class

\* collect_file_report up to the test of target_exists
probe_link(t) ==
    LET linked == IF ~t.link_status_error
                  THEN [FileReport EXCEPT !.symlink.is_symlink = t.is_symlink]
                  ELSE push_back(FileReport, "Unable to determine symlink status: ", Message)
        existing == IF t.exists_error
                    THEN [push_back(linked, "Unable to confirm path existence: ", Message)
                              EXCEPT !.target_exists = FALSE]
                    ELSE [linked EXCEPT !.target_exists = t.exists]
    IN IF existing.symlink.is_symlink
       THEN IF ~t.readlink_error
            THEN [existing EXCEPT !.symlink.target = some("target")]
            ELSE [existing EXCEPT !.symlink.error = some(Message)]
       ELSE existing

\* collect_file_report from the status call to the type
probe_status(t, r) ==
    LET permitted == IF ~t.status_error
                     THEN [r EXCEPT !.permissions = some("permissions")]
                     ELSE push_back(r, "Unable to read permissions: ", Message)
        owned == IF t.stat_fails
                 THEN push_back(permitted, "Unable to read ownership metadata: ", Message)
                 ELSE [permitted EXCEPT !.ownership = some("ownership")]
        timed == IF t.stat_fails
                 THEN push_back(owned, "Unable to read timestamps: ", Message)
                 ELSE [owned EXCEPT !.timestamps = some("timestamps")]
    IN IF ~t.status_error
       THEN [timed EXCEPT !.type = classify_type(t, t.kind = "directory")]
       ELSE [push_back(timed, "Unable to determine file type: ", Message)
                 EXCEPT !.type = IF timed.symlink.is_symlink THEN "Symlink" ELSE "Unknown"]

\* collect_directory_detail: the totals of the traversal, or the empty detail
collect_directory_detail(t, r) ==
    IF t.traverse_error
    THEN [push_back(r, "Unable to traverse directory: ", Message)
              EXCEPT !.directory_detail = some(DirectoryDetail)]
    ELSE [r EXCEPT !.directory_detail = some([DirectoryDetail EXCEPT !.file_count = 1])]

\* collect_file_detail after the checksum: resolution, metadata, duration
probe_media(t, d, r) ==
    LET is_image == t.class = "Image"
        is_video == t.class = "Video"
        is_audio == t.class = "Audio"
        resolved == IF is_image \/ is_video
                    THEN IF t.media_ok
                         THEN [d |-> [d EXCEPT !.resolution = some("resolution")], r |-> r]
                         ELSE [d |-> d,
                               r |-> IF is_image
                                     THEN push_back(r, "Unable to read image resolution.", "")
                                     ELSE push_back(r, "Unable to read video resolution.", "")]
                    ELSE [d |-> d, r |-> r]
    IN IF is_image
       THEN IF t.media_ok
            THEN [d |-> [resolved.d EXCEPT !.metadata = some("metadata")], r |-> resolved.r]
            ELSE [d |-> resolved.d,
                  r |-> push_back(resolved.r, "Unable to read image metadata.", "")]
       ELSE IF is_audio \/ is_video
            THEN IF t.media_ok
                 THEN [d |-> [resolved.d EXCEPT !.metadata = some("metadata"),
                                                !.duration = some("duration")],
                       r |-> resolved.r]
                 ELSE [d |-> resolved.d,
                       r |-> push_back(push_back(resolved.r, "Unable to read media metadata.", ""),
                                       "Unable to read media duration.", "")]
            ELSE resolved

\* main is run with a valid path, with or without --json
InitReport ==
    /\ target \in Targets
    /\ report = FileReport
    /\ cpc = [at |-> "main", detail |-> FileDetail]
    /\ sha_calls = 0
    /\ out \in {[json |-> j, stream |-> "none", checksum |-> nullopt, warnings |-> <<>>,
                  status |-> -1] : j \in BOOLEAN}
    /\ instances = <<>>
    /\ input = <<>>
    /\ hasher = members
    /\ fed = <<>>
    /\ calls = 0
    /\ finalized = FALSE
    /\ digest = <<>>
    /\ late = 0
    /\ trapped = FALSE
    /\ pc = "idle"
    /\ path = [opens |-> FALSE, size |-> 0]
    /\ file = closed
    /\ buffer = <<>>
    /\ ops = <<>>
    /\ result = nullopt

\* a collector that asks for a checksum of whatever exists
Collect_any ==
    /\ cpc.at = "main"
    /\ \E linked \in {probe_link(target)} :
          IF ~linked.target_exists
          THEN /\ report' = IF linked.symlink.is_symlink
                            THEN [linked EXCEPT !.type = "Broken Symlink"]
                            ELSE linked
               /\ cpc' = [cpc EXCEPT !.at = "returned"]
               /\ UNCHANGED <<sha_calls, pc, path>>
          ELSE \E typed \in {probe_status(target, linked)} :
                  /\ report' = IF target.size_error
                                THEN push_back(typed, "Unable to read file size: ", Message)
                                ELSE typed
                  /\ cpc' = [at |-> "hashing",
                             detail |-> [FileDetail EXCEPT
                                            !.size_bytes = IF target.size_error
                                                           THEN 0 ELSE target.file.size]]
                  /\ sha_calls' = sha_calls + 1
                  /\ pc' = "open"
                  /\ path' = target.file
    /\ UNCHANGED <<input, hasher, fed, calls, finalized, digest, late, trapped,
                   file, buffer, ops, result, instances, target, out>>

\* a collector that returns for a missing target without a look at the
\* symlink flag
Collect_unmarked ==
    /\ cpc.at = "main"
    /\ \E linked \in {probe_link(target)} :
          IF ~linked.target_exists
          THEN /\ report' = linked
               /\ cpc' = [cpc EXCEPT !.at = "returned"]
               /\ UNCHANGED <<sha_calls, pc, path>>
          ELSE \E typed \in {probe_status(target, linked)} :
               \E is_regular_file \in {~target.status_error /\ target.kind = "regular"} :
               \E is_directory \in {~target.status_error /\ target.kind = "directory"} :
                  IF is_regular_file
                  THEN /\ report' = IF target.size_error
                                    THEN push_back(typed, "Unable to read file size: ", Message)
                                    ELSE typed
                       /\ cpc' = [at |-> "hashing",
                                  detail |-> [FileDetail EXCEPT
                                                 !.size_bytes = IF target.size_error
                                                                THEN 0 ELSE target.file.size]]
                       /\ sha_calls' = sha_calls + 1
                       /\ pc' = "open"
                       /\ path' = target.file
                  ELSE /\ report' = IF is_directory
                                    THEN collect_directory_detail(target, typed)
                                    ELSE typed
                       /\ cpc' = [cpc EXCEPT !.at = "returned"]
                       /\ UNCHANGED <<sha_calls, pc, path>>
    /\ UNCHANGED <<input, hasher, fed, calls, finalized, digest, late, trapped,
                   file, buffer, ops, result, instances, target, out>>

\* main calls collect_file_report, which runs up to its return or, for a
\* regular file, up to the call of compute_sha256 in collect_file_detail
Collect ==
    /\ cpc.at = "main"
    /\ \E linked \in {probe_link(target)} :
          IF ~linked.target_exists
          THEN /\ report' = IF linked.symlink.is_symlink
                            THEN [linked EXCEPT !.type = "Broken Symlink"]
                            ELSE linked
               /\ cpc' = [cpc EXCEPT !.at = "returned"]
               /\ UNCHANGED <<sha_calls, pc, path>>
          ELSE \E typed \in {probe_status(target, linked)} :
               \E is_regular_file \in {~target.status_error /\ target.kind = "regular"} :
               \E is_directory \in {~target.status_error /\ target.kind = "directory"} :
                  IF is_regular_file
                  THEN /\ report' = IF target.size_error
                                    THEN push_back(typed, "Unable to read file size: ", Message)
                                    ELSE typed
                       /\ cpc' = [at |-> "hashing",
                                  detail |-> [FileDetail EXCEPT
                                                 !.size_bytes = IF target.size_error
                                                                THEN 0 ELSE target.file.size]]
                       /\ sha_calls' = sha_calls + 1
                       /\ pc' = "open"
                       /\ path' = target.file
                  ELSE /\ report' = IF is_directory
                                    THEN collect_directory_detail(target, typed)
                                    ELSE typed
                       /\ cpc' = [cpc EXCEPT !.at = "returned"]
                       /\ UNCHANGED <<sha_calls, pc, path>>
    /\ UNCHANGED <<input, hasher, fed, calls, finalized, digest, late, trapped,
                   file, buffer, ops, result, instances, target, out>>

\* a collector that passes an absent digest on as an empty checksum
Detail_silent ==
    /\ cpc.at = "hashing"
    /\ pc = "done"
    /\ \E summed \in {[d |-> [cpc.detail EXCEPT !.checksum = result.value], r |-> report]} :
       \E probed \in {probe_media(target, summed.d, summed.r)} :
          /\ report' = [probed.r EXCEPT !.file_detail = some(probed.d)]
          /\ cpc' = [at |-> "returned", detail |-> probed.d]
    /\ UNCHANGED <<input, hasher, fed, calls, finalized, digest, late, trapped,
                   driver, instances, target, sha_calls, out>>

\* compute_sha256 has returned: the rest of collect_file_detail, and the
\* return of collect_file_report
Detail ==
    /\ cpc.at = "hashing"
    /\ pc = "done"
    /\ \E summed \in {IF result.has_value
                        THEN [d |-> [cpc.detail EXCEPT !.checksum = result.value], r |-> report]
                        ELSE [d |-> [cpc.detail EXCEPT !.checksum = Unavailable],
                              r |-> push_back(report, "Unable to compute SHA-256 checksum.", "")]} :
       \E probed \in {probe_media(target, summed.d, summed.r)} :
          /\ report' = [probed.r EXCEPT !.file_detail = some(probed.d)]
          /\ cpc' = [at |-> "returned", detail |-> probed.d]
    /\ UNCHANGED <<input, hasher, fed, calls, finalized, digest, late, trapped,
                   driver, instances, target, sha_calls, out>>

\* main after collect_file_report: the error of a missing file, or the
\* report rendered as text or as JSON, with its checksum and its warnings
Render ==
    /\ cpc.at = "returned"
    /\ out' = IF ~report.target_exists /\ ~report.symlink.is_symlink
              THEN [out EXCEPT !.stream = "error", !.status = 1]
              ELSE [out EXCEPT !.stream = "report",
                               !.checksum = IF report.file_detail.has_value
                                            THEN some(report.file_detail.value.checksum)
                                            ELSE nullopt,
                               !.warnings = report.warnings,
                               !.status = 0]
    /\ cpc' = [cpc EXCEPT !.at = "exit"]
    /\ UNCHANGED <<input, hasher, fed, calls, finalized, digest, late, trapped,
                   driver, instances, target, report, sha_calls>>

NextReport == Collect \/ Open \/ Read \/ Return \/ Detail \/ Render

SpecReport == InitReport /\ [][NextReport]_vars

(***************************************************************************)
(* Two instances side by side                                              *)
(***************************************************************************)
\* the bytes the two clients hold, and the lengths they pass to update
PairInputs == <<Bytes(MaxPair), SubSeq(Bytes(MaxPair + 5), 6, MaxPair + 5)>>
PairLens == {3, 64}

\* Sha256 a; Sha256 b; each with its client's bytes. lens are the lengths the
\* client has passed to update; latest tells which instance was called last,
\* interleaved that a call on the other instance came between two of its own
InitPair ==
    /\ instances = [i \in 1..2 |->
                       [h |-> Sha256, input |-> PairInputs[i], lens |-> <<>>, fed |-> <<>>,
                        finalized |-> FALSE, digest |-> <<>>,
                        latest |-> FALSE, interleaved |-> FALSE]]
    /\ input = <<>>
    /\ hasher = members
    /\ fed = <<>>
    /\ calls = 0
    /\ finalized = FALSE
    /\ digest = <<>>
    /\ late = 0
    /\ trapped = FALSE
    /\ pc = "pair"
    /\ path = [opens |-> FALSE, size |-> 0]
    /\ file = closed
    /\ buffer = <<>>
    /\ ops = <<>>
    /\ result = nullopt
    /\ target = NoTarget
    /\ report = FileReport
    /\ cpc = [at |-> "off", detail |-> FileDetail]
    /\ sha_calls = 0
    /\ out = <<>>

\* instance i after a call that left it as after, the other one as it was
Called(i, after) ==
    [j \in 1..2 |->
        IF j = i
        THEN [after EXCEPT !.latest = TRUE,
                           !.interleaved = @ \/ (instances[i].lens # <<>> /\ ~instances[i].latest)]
        ELSE [instances[j] EXCEPT !.latest = FALSE]]

\* an update on members that all instances share (static buffer_ and
\* buffer_size_): the call shows in the other instance too
UpdateOf_static(i, n) ==
    /\ pc = "pair"
    /\ ~instances[i].finalized
    /\ Len(instances[i].lens) < PairCalls
    /\ Len(instances[i].fed) + n <= Len(instances[i].input)
    /\ \E me \in {instances[i]} :
       \E after \in {update(me.h, me.input, Len(me.fed), n)} :
          instances' =
              [j \in 1..2 |->
                  IF j = i
                  THEN [me EXCEPT !.h = after,
                                  !.lens = Append(@, n),
                                  !.fed = @ \o SubSeq(me.input, Len(me.fed) + 1, Len(me.fed) + n),
                                  !.latest = TRUE]
                  ELSE [instances[j] EXCEPT !.h.buffer_ = after.buffer_,
                                            !.h.buffer_size_ = after.buffer_size_,
                                            !.latest = FALSE]]
    /\ UNCHANGED <<input, hasher, fed, calls, finalized, digest, late, trapped,
                   driver, collector>>

\* instances[i].update(input + Len(fed), n)
UpdateOf(i, n) ==
    /\ pc = "pair"
    /\ ~instances[i].finalized
    /\ Len(instances[i].lens) < PairCalls
    /\ Len(instances[i].fed) + n <= Len(instances[i].input)
    /\ \E me \in {instances[i]} :
          instances' =
              Called(i, [me EXCEPT !.h = update(@, me.input, Len(me.fed), n),
                                   !.lens = Append(@, n),
                                   !.fed = @ \o SubSeq(me.input, Len(me.fed) + 1, Len(me.fed) + n)])
    /\ UNCHANGED <<input, hasher, fed, calls, finalized, digest, late, trapped,
                   driver, collector>>

\* instances[i].finalize()
FinalizeOf(i) ==
    /\ pc = "pair"
    /\ ~instances[i].finalized
    /\ \E me \in {instances[i]} :
       \E r \in {finalize(me.h)} :
          instances' =
              Called(i, [me EXCEPT !.h = r.self, !.digest = r.digest, !.finalized = TRUE])
    /\ UNCHANGED <<input, hasher, fed, calls, finalized, digest, late, trapped,
                   driver, collector>>

NextPair ==
    \/ \E i \in 1..2 : \E n \in PairLens : UpdateOf(i, n)
    \/ \E i \in 1..2 : FinalizeOf(i)

SpecPair == InitPair /\ [][NextPair]_vars

(***************************************************************************)
(* Properties                                                              *)
(***************************************************************************)
\* update calls only, then one finalize, and nothing since
Proper == finalized /\ late = 0 /\ ~trapped

\* the digest of a message fed in a single update call
OneShot(message) == finalize(update(Sha256, message, 0, Len(message))).digest

\* the characters 0-9 and a-f
HexChars == {HexDigit[i] : i \in 1..16}

\* a count below 2^31 as the 8 big-endian bytes of a 64-bit length
BigEndian64(count) ==
    <<0, 0, 0, 0, (count \div 2^24) % 256, (count \div 2^16) % 256,
      (count \div 2^8) % 256, count % 256>>

AbcHex == <<
    "b", "a", "7", "8", "1", "6", "b", "f", "8", "f", "0", "1", "c", "f", "e", "a",
    "4", "1", "4", "1", "4", "0", "d", "e", "5", "d", "a", "e", "2", "2", "2", "3",
    "b", "0", "0", "3", "6", "1", "a", "3", "9", "6", "1", "7", "7", "a", "9", "c",
    "b", "4", "1", "0", "f", "f", "6", "1", "f", "2", "0", "0", "1", "5", "a", "d" >>

EmptyHex == <<
    "e", "3", "b", "0", "c", "4", "4", "2", "9", "8", "f", "c", "1", "c", "1", "4",
    "9", "a", "f", "b", "f", "4", "c", "8", "9", "9", "6", "f", "b", "9", "2", "4",
    "2", "7", "a", "e", "4", "1", "e", "4", "6", "4", "9", "b", "9", "3", "4", "c",
    "a", "4", "9", "5", "9", "9", "1", "b", "7", "8", "5", "2", "b", "8", "5", "5" >>

EmptyHexAsWritten == <<
    "e", "3", "b", "0", "c", "4", "4", "2", "9", "8", "f", "c", "1", "c", "1", "4",
    "9", "a", "f", "b", "f", "4", "c", "8", "9", "9", "6", "f", "b", "9", "2", "4",
    "2", "7", "a", "e", "4", "1", "e", "4", "6", "4", "9", "b", "9", "3", "4", "c",
    "a", "4", "9", "5", "9", "9", "1", "b", "7", "8", "5", "2", "b", "8", "5" >>

\* C1: however the fed bytes were split over update calls, the digest
\* finalize returns equals the digest of a fresh instance fed the same bytes
\* in a single update call
C1_ChunkIndependence == Proper => digest = OneShot(fed)

C1_Witness ==
    /\ Proper
    /\ calls >= 2
    /\ Len(fed) > block_size
    /\ digest = OneShot(fed)

\* C2: every returned value of compute_sha256 is the empty optional or a
\* string of exactly 64 characters, each one of 0-9 a-f
C2_ResultShape ==
    \/ result = nullopt
    \/ /\ result.has_value
       /\ Len(result.value) = 64
       /\ \A i \in 1..Len(result.value) : result.value[i] \in HexChars

C2_Witness ==
    /\ pc = "done"
    /\ path.size = 65
    /\ result.has_value
    /\ Len(result.value) = 64

\* C3: the bytes 0x61 0x62 0x63 passed to update, then finalize, then the
\* hex encoding give ba7816bf...f20015ad
C3_AbcDigest == (Proper /\ fed = Abc) => to_hex(digest) = AbcHex

C3_Witness == Proper /\ fed = Abc /\ to_hex(digest) = AbcHex

\* C4, as amended: a fresh instance finalized with no update call gives, hex
\* encoded, the 64 characters e3b0c442...7852b855
C4_EmptyDigest == (Proper /\ fed = <<>>) => to_hex(digest) = EmptyHex

C4_Witness == Proper /\ fed = <<>> /\ calls = 0 /\ to_hex(digest) = EmptyHex

\* C4, as written: the digest of the empty sequence is the string
\* e3b0c442...7852b85 the claim spells out
C4_EmptyDigestAsWritten == (Proper /\ fed = <<>>) => to_hex(digest) = EmptyHexAsWritten

\* C5: once a read has failed with an I/O error (the stream is failed and
\* not at end of file), finalize has not been and is never called, and the
\* value returned is the empty optional
C5_ReadErrorNoDigest ==
    (file.reads > 0 /\ ~ok(file) /\ ~file.eofbit) =>
        /\ ~finalized
        /\ digest = <<>>
        /\ \A i \in 1..Len(ops) : ops[i].op # "finalize"
        /\ result = nullopt

C5_Witness ==
    /\ pc = "done"
    /\ file.badbit
    /\ ~file.eofbit
    /\ Len(ops) >= 2
    /\ result = nullopt

\* C6: when the open fails, compute_sha256 returns the empty optional at
\* once: no read, no hasher, no update or finalize call, no digest
C6_OpenFailure ==
    (pc # "open" /\ ~path.opens) =>
        /\ pc = "done"
        /\ result = nullopt
        /\ file.reads = 0
        /\ ops = <<>>
        /\ fed = <<>>
        /\ ~finalized
        /\ digest = <<>>

C6_Witness == pc = "done" /\ ~path.opens /\ result = nullopt /\ file.failbit

\* C7: no update or finalize call made on an instance after finalize
\* returns normally
C7_NoCallAfterFinalize == late = 0

\* C8: the calls compute_sha256 makes on its hasher are update calls followed
\* by at most one finalize; the hasher is fresh before the first call; a
\* clean end of stream ends the calls with one finalize, a failure with none
C8_CallOrder ==
    /\ \A i \in 1..Len(ops) : ops[i].op = "finalize" => i = Len(ops)
    /\ \A i \in 1..Len(ops) : ops[i].op \in {"update", "finalize"}
    /\ (pc = "loop" /\ ops = <<>>) => hasher = Sha256
    /\ pc # "done" => \A i \in 1..Len(ops) : ops[i].op = "update"
    /\ (pc = "done" /\ file.eofbit) =>
           (ops # <<>> /\ ops[Len(ops)].op = "finalize" /\ result.has_value)
    /\ (pc = "done" /\ ~file.eofbit) =>
           ((\A i \in 1..Len(ops) : ops[i].op = "update") /\ result = nullopt)

C8_Witness ==
    /\ pc = "done"
    /\ Len(ops) = 3
    /\ ops[1].op = "update"
    /\ ops[2].op = "update"
    /\ ops[3].op = "finalize"

\* C9: after construction and after every update call the pending length
\* buffer_size_ is in 0..63
C9_PendingLength == (~finalized /\ ~trapped) => hasher.buffer_size_ \in 0..(block_size - 1)

C9_Witness ==
    /\ ~finalized
    /\ calls >= 2
    /\ Len(fed) = block_size
    /\ hasher.buffer_size_ = 0

\* C10: the bit counter is 8 times the number of bytes passed to update, before
\* and after finalize, and the length suffix finalize writes encodes that number
C10_BitCount ==
    (late = 0 /\ ~trapped) =>
        /\ hasher.bit_count_ = 8 * Len(fed)
        /\ finalized => SubSeq(hasher.buffer_, 57, 64) = BigEndian64(8 * Len(fed))

C10_Witness ==
    /\ Proper
    /\ calls >= 2
    /\ Len(fed) % block_size >= 56
    /\ hasher.bit_count_ = 8 * Len(fed)

\* C11: every process_block invocation of an instance used as intended
\* (update calls, then one finalize), from update and from finalize alike,
\* was made with the pending length buffer_size_ at exactly 64
C11_BlocksAreFull ==
    (late = 0 /\ ~trapped) =>
        \A i \in 1..Len(hasher.blocks) : hasher.blocks[i].size = block_size

C11_Witness ==
    /\ Proper
    /\ Len(fed) > block_size
    /\ Len(hasher.blocks) = 2
    /\ \A i \in 1..2 : hasher.blocks[i].size = block_size

\* C12: a finalize call entered with p pending bytes invokes process_block
\* once when p <= 55 and twice when p >= 56; with the n bytes fed before it
\* that makes (n + 8) / 64 + 1 invocations in all, and the last block passed
\* holds the bit counter as 8 big-endian bytes at offsets 56..63
C12_PaddingThreshold ==
    [][(~finalized /\ finalized') =>
          LET p == hasher.buffer_size_
              n == Len(fed)
              before == Len(hasher.blocks)
              after == Len(hasher'.blocks)
          IN /\ p \in 0..63
             /\ after - before = IF p <= 55 THEN 1 ELSE 2
             /\ after = ((n + 8) \div 64) + 1
             /\ SubSeq(hasher'.blocks[after].block, 57, 64) = BigEndian64(hasher.bit_count_)
             /\ hasher.bit_count_ = 8 * n]_vars

C12_Witness ==
    /\ Proper
    /\ Len(fed) = 56
    /\ Len(hasher.blocks) = 2
    /\ SubSeq(hasher.blocks[2].block, 57, 64) = BigEndian64(8 * 56)

\* the lengths of the update calls in a sequence of calls, added up
RECURSIVE UpdateLengths(_)
UpdateLengths(calls_made) ==
    IF calls_made = <<>> THEN 0
    ELSE (IF calls_made[1].op = "update" THEN calls_made[1].length ELSE 0)
             + UpdateLengths(Tail(calls_made))

\* C13: the bytes compute_sha256 has passed to update, in call order, are the
\* bytes of the file read so far, in file order; the last read that delivered
\* bytes passed exactly those gcount bytes; and a returned digest is that of
\* the whole file fed in one piece, whatever chunks the reads delivered
C13_ChunksAreFile ==
    /\ fed = SubSeq(Content(path), 1, file.pos)
    /\ UpdateLengths(ops) = file.pos
    /\ file.gcount > 0 =>
           /\ \E i \in 1..Len(ops) :
                 /\ ops[i] = [op |-> "update", length |-> file.gcount]
                 /\ \A j \in (i + 1)..Len(ops) : ops[j].op = "finalize"
           /\ SubSeq(fed, Len(fed) - file.gcount + 1, Len(fed)) = SubSeq(buffer, 1, file.gcount)
    /\ (pc = "done" /\ result.has_value) =>
           /\ fed = Content(path)
           /\ result.value = to_hex(OneShot(Content(path)))

C13_Witness ==
    /\ pc = "done"
    /\ path.size = ReadBufferSize + 1
    /\ result.has_value
    /\ fed = Content(path)
    /\ ops = <<[op |-> "update", length |-> ReadBufferSize],
               [op |-> "update", length |-> 1],
               [op |-> "finalize", length |-> 0]>>

\* a fresh instance after update calls of the given lengths on data
RECURSIVE Feed(_, _, _, _)
Feed(self, data, off, lens) ==
    IF lens = <<>> THEN self
    ELSE Feed(update(self, data, off, Head(lens)), data, off + Head(lens), Tail(lens))

\* what an instance is, and what it returned, when its calls run alone
Alone(me) ==
    LET updated == Feed(Sha256, me.input, 0, me.lens)
    IN IF me.finalized THEN finalize(updated) ELSE [self |-> updated, digest |-> <<>>]

\* C14: with the calls on two instances interleaved in any order, each
\* instance is at every moment what its own calls alone make it, and the
\* digest it returns is the digest of its own calls run alone
C14_Independent ==
    pc = "pair" =>
        \A i \in 1..2 :
            \E alone \in {Alone(instances[i])} :
                /\ instances[i].h = alone.self
                /\ instances[i].digest = alone.digest

C14_Witness ==
    /\ pc = "pair"
    /\ \A i \in 1..2 :
          /\ instances[i].finalized
          /\ instances[i].interleaved
          /\ instances[i].lens = <<3, 3>>
          /\ instances[i].digest = OneShot(SubSeq(instances[i].input, 1, 6))
    /\ instances[1].digest # instances[2].digest

\* collect_file_report has returned
Returned == cpc.at \in {"returned", "exit"}

\* compute_sha256 was called and returned the empty optional
NoDigest == sha_calls = 1 /\ pc = "done" /\ ~result.has_value

\* the warning of a checksum that could not be computed
ChecksumWarning == <<"Unable to compute SHA-256 checksum.", "">>

\* C15: once the report of a regular file is returned, its checksum is the
\* literal Unavailable (which no digest string equals) exactly when
\* compute_sha256 gave no digest, and exactly then the warning "Unable to
\* compute SHA-256 checksum." is among its warnings, once; the remaining
\* fields are collected all the same, and main renders the report, with
\* that checksum and that warning, and exits with status 0
C15_Unavailable ==
    LET detail == report.file_detail
        warned == {i \in 1..Len(report.warnings) : report.warnings[i] = ChecksumWarning}
    IN /\ Len(Unavailable) # 64
       /\ Returned =>
             /\ NoDigest <=> (detail.has_value /\ detail.value.checksum = Unavailable)
             /\ NoDigest <=> warned # {}
             /\ Cardinality(warned) <= 1
             /\ NoDigest =>
                   /\ report.target_exists
                   /\ report.type = target.class
                   /\ report.permissions.has_value
                   /\ report.ownership.has_value
                   /\ detail.value.size_bytes = IF target.size_error THEN 0 ELSE target.file.size
                   /\ detail.value.metadata.has_value = target.media_ok
       /\ (cpc.at = "exit" /\ NoDigest) =>
             /\ out.stream = "report"
             /\ out.status = 0
             /\ out.checksum = some(Unavailable)
             /\ \E i \in 1..Len(out.warnings) : out.warnings[i] = ChecksumWarning

C15_Witness ==
    /\ cpc.at = "exit"
    /\ NoDigest
    /\ file.badbit
    /\ target.class = "Video"
    /\ target.media_ok
    /\ report.file_detail.value.checksum = Unavailable
    /\ report.file_detail.value.duration.has_value
    /\ report.warnings = <<ChecksumWarning>>
    /\ out.stream = "report"

\* the target exists, its status is readable and it is a regular file
IsRegular ==
    target.exists /\ ~target.exists_error /\ ~target.status_error /\ target.kind = "regular"

\* C16: collect_file_report calls compute_sha256 once for a target that
\* exists, has a readable status and is a regular file, and the string it
\* returns is the report's checksum; for any other target (a directory, a
\* missing one, a broken symlink, an unreadable status) it makes no call and
\* the report has no file detail
C16_OneCall ==
    /\ sha_calls <= 1
    /\ cpc.at = "hashing" => (sha_calls = 1 /\ IsRegular /\ path = target.file)
    /\ Returned => sha_calls = (IF IsRegular THEN 1 ELSE 0)
    /\ (Returned /\ sha_calls = 1 /\ result.has_value) =>
           /\ report.file_detail.has_value
           /\ report.file_detail.value.checksum = result.value
    /\ sha_calls = 0 =>
           /\ pc = "idle"
           /\ ops = <<>>
           /\ file.reads = 0
           /\ ~report.file_detail.has_value

C16_Witness ==
    /\ cpc.at = "exit"
    /\ sha_calls = 1
    /\ target.file.size = MaxTargetFile
    /\ result.has_value
    /\ Len(result.value) = 64
    /\ report.file_detail.value.checksum = result.value
    /\ out.checksum = some(result.value)

\* bits 31-8j .. 24-8j of a 32-bit word, by division
WordByte(word, j) ==
    IF j = 0 THEN word[1] \div 256
    ELSE IF j = 1 THEN word[1] % 256
    ELSE IF j = 2 THEN word[2] \div 256
    ELSE word[2] % 256

\* C17: the digest compute_sha256 encodes has 32 bytes, byte 4i+j being bits
\* 31-8j..24-8j of chaining-state word i as the last compression left it,
\* and characters 2m and 2m+1 of the returned string are the high and the low
\* nibble of digest byte m as lowercase hex digits, a high nibble 0 included
C17_Serialisation ==
    (pc = "done" /\ result.has_value) =>
        /\ Len(digest) = 32
        /\ \A i \in 0..7 : \A j \in 0..3 :
              digest[4 * i + j + 1] = WordByte(hasher.state_[i + 1], j)
        /\ Len(result.value) = 64
        /\ \A m \in 0..31 :
              /\ result.value[2 * m + 1] = HexDigit[(digest[m + 1] \div 16) + 1]
              /\ result.value[2 * m + 2] = HexDigit[(digest[m + 1] % 16) + 1]
        /\ HexDigit = <<"0", "1", "2", "3", "4", "5", "6", "7",
                        "8", "9", "a", "b", "c", "d", "e", "f">>

C17_Witness ==
    /\ pc = "done"
    /\ result.has_value
    /\ \E m \in 0..31 :
          /\ digest[m + 1] \in 1..15
          /\ result.value[2 * m + 1] = "0"
          /\ result.value[2 * m + 2] = HexDigit[digest[m + 1] + 1]
    /\ \E i \in 0..7 : digest[4 * i + 1] # digest[4 * i + 4]
    /\ digest[1] = hasher.state_[1][1] \div 256

\* C18: after update calls totalling n bytes on a fresh instance,
\* process_block has been invoked n / 64 times, the k-th time on input bytes
\* 64(k-1)..64k-1, the pending length is n mod 64 and the pending bytes are
\* the last n mod 64 bytes of the input, in order
C18_Buffering ==
    (~finalized /\ ~trapped) =>
        LET n == Len(fed)
        IN /\ Len(hasher.blocks) = n \div 64
           /\ \A i \in 1..Len(hasher.blocks) :
                 hasher.blocks[i].block = SubSeq(fed, 64 * (i - 1) + 1, 64 * i)
           /\ hasher.buffer_size_ = n % 64
           /\ SubSeq(hasher.buffer_, 1, hasher.buffer_size_) = SubSeq(fed, n - (n % 64) + 1, n)

C18_Witness ==
    /\ ~finalized
    /\ calls >= 2
    /\ Len(fed) = 130
    /\ Len(hasher.blocks) = 2
    /\ hasher.blocks[1].block = SubSeq(input, 1, 64)
    /\ hasher.blocks[2].block = SubSeq(input, 65, 128)
    /\ hasher.buffer_size_ = 2
    /\ SubSeq(hasher.buffer_, 1, 2) = SubSeq(input, 129, 130)

\* C19: in every state reached by update calls, zero-length ones among them,
\* an update call with length 0 leaves the instance as it is: chaining
\* state, buffer contents, pending length, bit counter, and no process_block
\* invocation
C19_EmptyUpdate ==
    (~finalized /\ ~trapped) =>
        /\ update(hasher, input, Len(fed), 0) = hasher
        /\ fed = <<>> => hasher = Sha256

C19_Witness ==
    /\ ~finalized
    /\ calls = 2
    /\ Len(fed) = 65
    /\ hasher.buffer_size_ = 1
    /\ Len(hasher.blocks) = 1
    /\ update(hasher, input, Len(fed), 0) = hasher

\* the initial hash value of FIPS 180-4, section 5.3.3
FipsInitial == <<
    <<\H6a09, \He667>>, <<\Hbb67, \Hae85>>, <<\H3c6e, \Hf372>>, <<\Ha54f, \Hf53a>>,
    <<\H510e, \H527f>>, <<\H9b05, \H688c>>, <<\H1f83, \Hd9ab>>, <<\H5be0, \Hcd19>>>>

\* the chaining state after the compression of the given blocks, in order
RECURSIVE Compressed(_, _)
Compressed(state, blocks) ==
    IF blocks = <<>> THEN state
    ELSE Compressed(process_block([members EXCEPT !.state_ = state], Head(blocks).block).state_,
                    Tail(blocks))

\* C20: an instance no call was made on holds the eight initial values, bit
\* counter 0 and pending length 0; an update call invokes process_block once
\* for each 64-byte block its bytes complete, the chaining state it leaves is
\* the one those compressions give, and when its bytes complete no block all
\* eight words are as they were
C20_StateFrame ==
    [][/\ (calls = 0 /\ ~finalized /\ ~trapped) =>
             /\ hasher.state_ = FipsInitial
             /\ hasher.bit_count_ = 0
             /\ hasher.buffer_size_ = 0
       /\ (~finalized /\ ~finalized' /\ ~trapped') =>
             LET before == Len(hasher.blocks)
                 after == Len(hasher'.blocks)
             IN /\ after - before = (Len(fed') \div 64) - (Len(fed) \div 64)
                /\ after = before => hasher'.state_ = hasher.state_
                /\ hasher'.state_ =
                       Compressed(hasher.state_, SubSeq(hasher'.blocks, before + 1, after))
                /\ after > before => hasher'.state_ # hasher.state_]_vars

C20_Witness ==
    /\ ~finalized
    /\ calls = 2
    /\ Len(fed) = 63
    /\ hasher.state_ = FipsInitial
    /\ hasher.blocks = <<>>

\* an instance that holds the given chaining state and nothing else
Bare(state) == [members EXCEPT !.state_ = state]

\* C21: process_block run on the instance as it is, whatever calls led to
\* it, gives the chaining state it gives on an instance that holds the same
\* eight words and nothing else (no bit counter, no pending bytes, no earlier
\* invocation), and it leaves buffer_, buffer_size_ and bit_count_ as they were
C21_PureCompression ==
    ~trapped =>
        \E after \in {process_block(hasher, hasher.buffer_)} :
            /\ after.state_ = process_block(Bare(hasher.state_), hasher.buffer_).state_
            /\ after.buffer_ = hasher.buffer_
            /\ after.buffer_size_ = hasher.buffer_size_
            /\ after.bit_count_ = hasher.bit_count_
            /\ Len(after.blocks) = Len(hasher.blocks) + 1

C21_Witness ==
    /\ ~finalized
    /\ Len(fed) = 65
    /\ hasher.buffer_size_ = 1
    /\ hasher.bit_count_ = 8 * 65
    /\ Len(hasher.blocks) = 1
    /\ hasher.state_ # InitialState
    /\ process_block(hasher, hasher.buffer_).state_ # hasher.state_
    /\ process_block(hasher, hasher.buffer_).buffer_size_ = 1

\* a 32-bit value as its four bytes, most significant first, and the
\* arithmetic of FIPS 180-4 on such values
RefWord(x) == <<x[1] \div 256, x[1] % 256, x[2] \div 256, x[2] % 256>>

RefAdd(x, y) ==
    LET s3 == x[4] + y[4]
        s2 == x[3] + y[3] + (s3 \div 256)
        s1 == x[2] + y[2] + (s2 \div 256)
        s0 == x[1] + y[1] + (s1 \div 256)
    IN <<s0 % 256, s1 % 256, s2 % 256, s3 % 256>>

RefShr(x, n) ==
    LET q == n \div 8
        r == n % 8
        byte(j) == IF j < 1 THEN 0 ELSE x[j]
    IN [j \in 1..4 |-> ((byte(j - q - 1) % 2^r) * 2^(8 - r)) + (byte(j - q) \div 2^r)]

RefRotr(x, n) ==
    LET q == n \div 8
        r == n % 8
        byte(j) == x[((j + 7) % 4) + 1]
    IN [j \in 1..4 |-> ((byte(j - q - 1) % 2^r) * 2^(8 - r)) + (byte(j - q) \div 2^r)]

RECURSIVE RefXorByte(_, _)
RefXorByte(a, b) ==
    IF a = 0 /\ b = 0 THEN 0
    ELSE ((a + b) % 2) + 2 * RefXorByte(a \div 2, b \div 2)

RefXor(x, y) == [j \in 1..4 |-> RefXorByte(x[j], y[j])]

\* sigma0 and sigma1 of FIPS 180-4, section 4.1.2
RefSigma0(x) == RefXor(RefXor(RefRotr(x, 7), RefRotr(x, 18)), RefShr(x, 3))
RefSigma1(x) == RefXor(RefXor(RefRotr(x, 17), RefRotr(x, 19)), RefShr(x, 10))

\* C22: for every block passed to process_block, the schedule has 64 words,
\* each in 0..2^32-1; w[i] for i in 0..15 is the big-endian word of block
\* bytes 4i..4i+3, and for i in 16..63
\* w[i] = (w[i-16] + s0(w[i-15]) + w[i-7] + s1(w[i-2])) mod 2^32
C22_Schedule ==
    \A b \in 1..Len(hasher.blocks) :
        \E block \in {hasher.blocks[b].block} :
        \E w \in {Schedule(LoadWords(block), 64 - 16)} :
            /\ Len(w) = 64
            /\ \A i \in 0..63 : w[i + 1][1] \in 0..65535 /\ w[i + 1][2] \in 0..65535
            /\ \A i \in 0..15 :
                  RefWord(w[i + 1]) = SubSeq(block, 4 * i + 1, 4 * i + 4)
            /\ \A i \in 16..63 :
                  RefWord(w[i + 1]) =
                      RefAdd(RefAdd(RefAdd(RefWord(w[i - 16 + 1]),
                                           RefSigma0(RefWord(w[i - 15 + 1]))),
                                    RefWord(w[i - 7 + 1])),
                             RefSigma1(RefWord(w[i - 2 + 1])))

C22_Witness ==
    /\ Proper
    /\ fed = Abc
    /\ Len(hasher.blocks) = 1
    /\ \E w \in {Schedule(LoadWords(hasher.blocks[1].block), 64 - 16)} :
          /\ w[1] = <<\H6162, \H6380>>
          /\ w[16] = <<0, 24>>
          /\ w[17] = <<\H6162, \H6380>>
          /\ w[18] = <<\H000f, 0>>

\* the compression function of FIPS 180-4, section 6.2.2, on values held as
\* four bytes: the bitwise operations by table, the functions of section
\* 4.1.2, the message schedule, the 64 rounds and the new hash value
RefXorTable == [a \in 0..255 |-> [b \in 0..255 |-> RefXorByte(a, b)]]

RECURSIVE RefAndByte(_, _)
RefAndByte(a, b) ==
    IF a = 0 \/ b = 0 THEN 0
    ELSE ((a % 2) * (b % 2)) + 2 * RefAndByte(a \div 2, b \div 2)

RefAndTable == [a \in 0..255 |-> [b \in 0..255 |-> RefAndByte(a, b)]]

RefX(x, y) == [j \in 1..4 |-> RefXorTable[x[j]][y[j]]]
RefA(x, y) == [j \in 1..4 |-> RefAndTable[x[j]][y[j]]]
RefN(x) == [j \in 1..4 |-> 255 - x[j]]

RefCh(x, y, z) == RefX(RefA(x, y), RefA(RefN(x), z))
RefMaj(x, y, z) == RefX(RefX(RefA(x, y), RefA(x, z)), RefA(y, z))
RefSum0(x) == RefX(RefX(RefRotr(x, 2), RefRotr(x, 13)), RefRotr(x, 22))
RefSum1(x) == RefX(RefX(RefRotr(x, 6), RefRotr(x, 11)), RefRotr(x, 25))
RefSmall0(x) == RefX(RefX(RefRotr(x, 7), RefRotr(x, 18)), RefShr(x, 3))
RefSmall1(x) == RefX(RefX(RefRotr(x, 17), RefRotr(x, 19)), RefShr(x, 10))

\* W_t for t = Len(w), appended, n times
RECURSIVE RefExpand(_, _)
RefExpand(w, n) ==
    IF n = 0 THEN w
    ELSE IF n = 1
         THEN LET t == Len(w)
              IN Append(w, RefAdd(RefAdd(RefAdd(RefSmall1(w[t - 2 + 1]), w[t - 7 + 1]),
                                         RefSmall0(w[t - 15 + 1])), w[t - 16 + 1]))
         ELSE CHOOSE done \in {RefExpand(half, n - (n \div 2)) :
                                  half \in {RefExpand(w, n \div 2)}} : TRUE

\* steps t..t+n-1 of the loop of section 6.2.2, step 3, on v = <<a, .., h>>
RECURSIVE RefSteps(_, _, _, _)
RefSteps(v, w, t, n) ==
    IF n = 0 THEN v
    ELSE IF n = 1
         THEN LET T1 == RefAdd(RefAdd(RefAdd(RefAdd(v[8], RefSum1(v[5])),
                                             RefCh(v[5], v[6], v[7])),
                                      RefWord(k[t + 1])), w[t + 1])
                  T2 == RefAdd(RefSum0(v[1]), RefMaj(v[1], v[2], v[3]))
              IN <<RefAdd(T1, T2), v[1], v[2], v[3], RefAdd(v[4], T1), v[5], v[6], v[7]>>
         ELSE CHOOSE done \in {RefSteps(half, w, t + (n \div 2), n - (n \div 2)) :
                                  half \in {RefSteps(v, w, t, n \div 2)}} : TRUE

RefCompress(H, block) ==
    CHOOSE done \in {[j \in 1..8 |-> RefAdd(v[j], H[j])] :
                        v \in {RefSteps(H, w, 0, 64) :
                                  w \in {RefExpand([i \in 1..16 |->
                                                       SubSeq(block, 4 * i - 3, 4 * i)], 48)}}} : TRUE

RECURSIVE RefCompressed(_, _)
RefCompressed(H, blocks) ==
    IF blocks = <<>> THEN H
    ELSE RefCompressed(RefCompress(H, Head(blocks).block), Tail(blocks))

RefState(state) == [j \in 1..8 |-> RefWord(state[j])]

\* C23: over every call, the chaining state the call leaves is the one the
\* compression function of FIPS 180-4 gives when it is applied, block after
\* block, to the chaining state before the call and the blocks the call
\* passed to process_block: registers a..h from the state, 64 rounds in
\* index order with k[i] and w[i], and each word the old word plus its
\* register mod 2^32
C23_Rounds ==
    [][\E added \in {SubSeq(hasher'.blocks, Len(hasher.blocks) + 1, Len(hasher'.blocks))} :
          RefState(hasher'.state_) = RefCompressed(RefState(hasher.state_), added)]_vars

C23_Witness ==
    /\ Proper
    /\ fed = Abc
    /\ Len(hasher.blocks) = 1
    /\ RefState(hasher.state_) = RefCompress(RefState(FipsInitial), hasher.blocks[1].block)
    /\ to_hex(serialize(hasher.state_)) = AbcHex

\* the update call the next read leads to, for a read that delivers got bytes
NextUpdate(got) ==
    [self |-> hasher, data |-> Content(path), off |-> file.pos, length |-> got]

\* C24: wherever compute_sha256 is in its read loop, the pending length is
\* below 64 and the update call on what the next read delivers (all that is
\* left up to 32768 bytes, or less on an error) leaves its loop with
\* length 0 after at most length / 64 + 2 iterations, an iteration absorbing
\* at least one byte and leaving the pending length below 64; and every run
\* of compute_sha256 ends, with a digest string or with the empty optional
C24_Terminates ==
    /\ [](pc \in {"open", "loop", "done"})
    /\ [](pc = "loop" =>
             /\ hasher.buffer_size_ < block_size
             /\ \A got \in {Min(ReadBufferSize, path.size - file.pos)}
                              \cup ErrorCounts(Min(ReadBufferSize, path.size - file.pos)) :
                   \E c \in {NextUpdate(got)} :
                      /\ \E done \in {update_loop(c, (got \div block_size) + 2)} :
                            /\ done.length = 0
                            /\ done.off = c.off + got
                            /\ done.self.buffer_size_ < block_size
                      /\ got > 0 =>
                            \E once \in {update_body(c)} :
                               /\ once.length < c.length
                               /\ once.self.buffer_size_ < block_size)
    /\ <>(/\ pc = "done"
          /\ \/ result = nullopt
             \/ result.has_value /\ Len(result.value) = 64)

C24_Witness ==
    /\ pc = "done"
    /\ path.size = ReadBufferSize + 1
    /\ file.reads = 2
    /\ file.eofbit
    /\ finalized
    /\ Len(hasher.blocks) = 513
    /\ result.has_value

\* the bytes of the blocks of a history, in order
RECURSIVE Concatenation(_)
Concatenation(blocks) ==
    IF blocks = <<>> THEN <<>> ELSE Head(blocks).block \o Concatenation(Tail(blocks))

\* the least z >= 0 with n + 1 + z congruent to 56 mod 64
ZeroCount(n) == CHOOSE z \in 0..63 : (n + 1 + z) % 64 = 56

\* the message M followed by 0x80, the zero bytes and 8n as 8 bytes
Padded(M) ==
    M \o <<128>> \o [i \in 1..ZeroCount(Len(M)) |-> 0] \o BigEndian64(8 * Len(M))

\* C25: once the bytes M were fed, in update calls of any lengths, and
\* finalize has returned, the blocks passed to process_block, put end to
\* end, are M, one 0x80 byte, the least number of zero bytes that brings the
\* length to 56 mod 64, and 8 * Len(M) as 8 big-endian bytes: nothing an
\* earlier block left in the buffer is in a later block
C25_PaddedMessage == Proper => Concatenation(hasher.blocks) = Padded(fed)

C25_Witness ==
    /\ Proper
    /\ calls >= 2
    /\ Len(fed) = 65
    /\ Len(hasher.blocks) = 2
    /\ \A i \in 3..56 : hasher.blocks[1].block[i] # 0 /\ hasher.blocks[2].block[i] = 0
    /\ hasher.blocks[2].block[2] = 128
    /\ Concatenation(hasher.blocks) = Padded(fed)

\* the indices p, p + 1, .., 63, and 0, .., 63 after them when p >= 56
StoresFrom(p) ==
    [i \in 1..(block_size - p) |-> p + i - 1]
        \o (IF p >= 56 THEN [i \in 1..block_size |-> i - 1] ELSE <<>>)

\* C26: after the finalize call on an instance that construction and update
\* calls made, every store finalize made into buffer_ was at an index in
\* 0..63 (from the pending length p up to 63, and through 0..63 once more
\* when p >= 56), buffer_size_ was 64 at each process_block invocation, and
\* it is 64 now that finalize has returned
C26_FinalizeIndices ==
    /\ ~finalized => hasher.stores = <<>>
    /\ Proper =>
          /\ \A i \in 1..Len(hasher.stores) : hasher.stores[i] \in 0..(block_size - 1)
          /\ hasher.stores = StoresFrom(Len(fed) % block_size)
          /\ \A i \in 1..Len(hasher.blocks) : hasher.blocks[i].size = block_size
          /\ hasher.buffer_size_ = block_size
          /\ hasher.bit_count_ = 8 * Len(fed)

C26_Witness ==
    /\ Proper
    /\ Len(fed) = 63
    /\ Len(hasher.stores) = 65
    /\ hasher.stores[1] = 63
    /\ hasher.stores[2] = 0
    /\ hasher.stores[65] = 63
    /\ hasher.buffer_size_ = block_size

\* C27: compute_sha256 on a file that opens, is read without an I/O error
\* and has a length that is a multiple of the 32768-byte chunk, the empty
\* file among them, returns a digest: the last read delivers 0 bytes and
\* sets the fail and the end-of-file flags, every read before it delivers a
\* full chunk that goes to update, finalize is called once, and the string
\* is the digest of the file's bytes; for the empty file update is never
\* called and the string is the digest of the empty sequence
C27_EmptyLastRead ==
    (pc = "done" /\ path.opens /\ ~file.badbit /\ path.size % ReadBufferSize = 0) =>
        LET full == path.size \div ReadBufferSize
        IN /\ result.has_value
           /\ file.reads = full + 1
           /\ file.gcount = 0
           /\ file.eofbit /\ file.failbit
           /\ Len(ops) = full + 1
           /\ \A i \in 1..full : ops[i] = [op |-> "update", length |-> ReadBufferSize]
           /\ ops[full + 1].op = "finalize"
           /\ result.value = to_hex(OneShot(Content(path)))
           /\ path.size = 0 =>
                 /\ ops = <<[op |-> "finalize", length |-> 0]>>
                 /\ fed = <<>>
                 /\ hasher.bit_count_ = 0
                 /\ result.value = EmptyHex

C27_Witness ==
    /\ pc = "done"
    /\ path.opens
    /\ path.size = 0
    /\ file.reads = 1
    /\ file.gcount = 0
    /\ file.eofbit /\ file.failbit /\ ~file.badbit
    /\ ops = <<[op |-> "finalize", length |-> 0]>>
    /\ result = some(EmptyHex)

\* C28: every update call compute_sha256 has made has a length in
\* 1..32768, and an update call with a length below 32768 is the last
\* update call of the run
C28_UpdateLengths ==
    \A i \in 1..Len(ops) :
        ops[i].op = "update" =>
            /\ ops[i].length \in 1..ReadBufferSize
            /\ ops[i].length < ReadBufferSize =>
                  /\ \A j \in (i + 1)..Len(ops) : ops[j].op # "update"
                  /\ ~ok(file)

C28_Witness ==
    /\ pc = "done"
    /\ path.size = ReadBufferSize + 1
    /\ file.badbit
    /\ file.reads = 2
    /\ ops = <<[op |-> "update", length |-> ReadBufferSize],
               [op |-> "update", length |-> 1]>>
    /\ result = nullopt

RECURSIVE RoundTrace(_, _, _)
RoundTrace(r, w, n) ==
    IF n <= 1 THEN <<r>>
    ELSE CHOOSE done \in {half \o RoundTrace(Round(half[Len(half)], w), w, n - (n \div 2)) :
                             half \in {RoundTrace(r, w, n \div 2)}} : TRUE

\* the rotr calls of one process_block invocation, each as <<value, count>>
RotrCalls(state, block) ==
    LET w == Schedule(LoadWords(block), 64 - 16)
        regs == RoundTrace([a |-> state[1], b |-> state[2], c |-> state[3], d |-> state[4],
                            e |-> state[5], f |-> state[6], g |-> state[7], h |-> state[8],
                            i |-> 0], w, 64)
    IN {<<w[i - 15 + 1], ScheduleRotations.s0[j]>> : i \in 16..63, j \in 1..2}
           \cup {<<w[i - 2 + 1], ScheduleRotations.s1[j]>> : i \in 16..63, j \in 1..2}
           \cup {<<regs[i + 1].e, RoundRotations.s1[j]>> : i \in 0..63, j \in 1..3}
           \cup {<<regs[i + 1].a, RoundRotations.s0[j]>> : i \in 0..63, j \in 1..3}

\* the rotr calls of the invocations on the given blocks, from the given state
RECURSIVE RotrCallsOver(_, _)
RotrCallsOver(state, blocks) ==
    IF blocks = <<>> THEN {}
    ELSE RotrCalls(state, Head(blocks).block)
             \cup RotrCallsOver(process_block(Bare(state), Head(blocks).block).state_,
                                Tail(blocks))

\* bit j of a 32-bit value, bit 0 being the least significant
BitOf(x, j) == IF j < 16 THEN (x[2] \div 2^j) % 2 ELSE (x[1] \div 2^(j - 16)) % 2

\* C30: over every call, each rotr call of the process_block invocations the
\* call made has a count in 1..31, so that count and 32 - count are both
\* shifts by 1..31; the counts are 2, 6, 7, 11, 13, 17, 18, 19, 22 and 25;
\* and what rotr returns is the right rotation of the value: bit j of the
\* result is bit (j + count) mod 32 of the value
C30_Rotations ==
    [][\E made \in {RotrCallsOver(hasher.state_,
                                   SubSeq(hasher'.blocks, Len(hasher.blocks) + 1,
                                          Len(hasher'.blocks)))} :
          /\ made # {} =>
                {call[2] : call \in made} = {2, 6, 7, 11, 13, 17, 18, 19, 22, 25}
          /\ \A call \in made :
                /\ call[2] \in 1..31
                /\ (32 - call[2]) \in 1..31
                /\ \E rotated \in {rotr(call[1], call[2])} :
                      /\ RefWord(rotated) = RefRotr(RefWord(call[1]), call[2])
                      /\ \A j \in 0..31 :
                            BitOf(rotated, j) = BitOf(call[1], (j + call[2]) % 32)]_vars

C30_Witness ==
    /\ Proper
    /\ fed = Abc
    /\ Len(hasher.blocks) = 1
    /\ \E made \in {RotrCalls(FipsInitial, hasher.blocks[1].block)} :
          /\ <<<<0, 24>>, 17>> \in made
          /\ <<FipsInitial[1], 22>> \in made
          /\ <<FipsInitial[5], 6>> \in made
    /\ rotr(<<0, 24>>, 17) = <<\H000c, 0>>
    /\ rotr(<<0, 1>>, 2) = <<\H4000, 0>>

====
